---- MODULE Spec2Model ----
(***************************************************************************)
(* giantswarm/shoot: one HTTP query is answered by a coordinator agent     *)
(* that delegates to two collector agents (workload cluster, management    *)
(* cluster); every agent talks to the model provider through the OpenAI    *)
(* adapter.  A request blocks only in a provider call or in an MCP tool    *)
(* call; each action below is the code that runs between two such points.  *)
(***************************************************************************)
EXTENDS Integers, Sequences, FiniteSets, TLC

\* Provider replies consumed in one behaviour (the code itself has no limit).
MaxReplies == 3
\* The turn budget the specification speaks of (the code configures none).
TurnBudget == 1
\* Longest tool-call list of a provider reply enumerated for the adapter.
MaxToolCalls == 2
MaxPieces == 3
MaxContents == 3

Reqs == {"r1", "r2"}
Collectors == {"wc_collector", "mc_collector"}

----------------------------------------------------------------------------
(* internal/model/openai_simple.go : the OpenAI adapter                    *)

\* Argument strings a provider may send with a tool call.
ArgStrings == {"{\"query\":\"q\"}", "{}", "null", "{\"query\":", "[]"}

\* json.Unmarshal([]byte(s), &args) with args a map[string]interface{}:
\* the decoded map as its set of <<key, value>> pairs, or the failure.
JsonUnmarshalMap(s) ==
    CASE s = "{\"query\":\"q\"}" -> [ok |-> TRUE, map |-> {<<"query", "q">>}]
      [] s = "{}" -> [ok |-> TRUE, map |-> {}]
      [] s = "null" -> [ok |-> TRUE, map |-> {}]
      [] OTHER -> [ok |-> FALSE, map |-> {}]

NoCall == [name |-> "", args |-> {}]
TextPart(t) == [text |-> t, call |-> NoCall, isCall |-> FALSE]
CallPart(n, a) == [text |-> "", call |-> [name |-> n, args |-> a], isCall |-> TRUE]

\* A token count is a pair <<hi, lo>> that stands for hi * 65536 + lo, with
\* lo in 0..65535, so that counts beyond 32 bits can be written down.
Half == 65536
Count(hi, lo) == <<hi, lo>>

\* int32(x) of an int64 x >= 0: the low 32 bits, read as a signed number.
Int32(x) == <<((x[1] + 32768) % Half) - 32768, x[2]>>

\* A nil *model.LLMResponse.
NilResponse ==
    [nil |-> TRUE, role |-> "", parts |-> <<>>, turnComplete |-> FALSE,
     finishReason |-> "", usage |-> <<Count(0, 0), Count(0, 0), Count(0, 0)>>]


\* The switch on choice.FinishReason.
ConvertFinishReason(f) ==
    CASE f = "stop" -> "STOP"
      [] f = "length" -> "MAX_TOKENS"
      [] f = "tool_calls" -> "STOP"
      [] f = "content_filter" -> "SAFETY"
      [] OTHER -> "OTHER"

\* Faulty variant: a tool call whose arguments do not decode is dropped and the
\* rest of the reply is still returned.
RECURSIVE ConvertToolCallsSkipping(_, _)
ConvertToolCallsSkipping(calls, parts) ==
    IF calls = <<>> THEN [err |-> <<>>, parts |-> parts]
    ELSE LET d == JsonUnmarshalMap(Head(calls).arguments) IN
         IF ~d.ok THEN ConvertToolCallsSkipping(Tail(calls), parts)
         ELSE ConvertToolCallsSkipping(Tail(calls),
                               Append(parts, CallPart(Head(calls).name, d.map)))

\* The loop over choice.Message.ToolCalls: the parts so far, or the first
\* decode error, on which the function returns (nil, err).
RECURSIVE ConvertToolCalls(_, _)
ConvertToolCalls(calls, parts) ==
    IF calls = <<>> THEN [err |-> <<>>, parts |-> parts]
    ELSE LET d == JsonUnmarshalMap(Head(calls).arguments) IN
         IF ~d.ok THEN [err |-> <<"failed to parse tool arguments">>, parts |-> <<>>]
         ELSE ConvertToolCalls(Tail(calls),
                               Append(parts, CallPart(Head(calls).name, d.map)))

simpleConvertFromOpenAIResponse(choice) ==
    LET first == IF choice.content # "" THEN <<TextPart(choice.content)>> ELSE <<>>
        conv == ConvertToolCalls(choice.toolCalls, first)
    IN IF conv.err # <<>> THEN [resp |-> NilResponse, err |-> conv.err]
       ELSE [resp |-> [nil |-> FALSE, role |-> "model", parts |-> conv.parts,
                       turnComplete |-> TRUE,
                       finishReason |-> ConvertFinishReason(choice.finish),
                       usage |-> <<Count(0, 0), Count(0, 0), Count(0, 0)>>],
             err |-> <<>>]

\* What the iterator returned by GenerateContent yields for one provider
\* reply: a sequence of (response, error) pairs.  An error is the chain of
\* messages that fmt.Errorf("...: %w", err) builds, outermost first; <<>> is
\* the nil error.
GenerateContent(reply) ==
    IF reply.err # ""
    THEN <<[resp |-> NilResponse, err |-> <<"OpenAI API error", reply.err>>]>>
    ELSE IF Len(reply.choices) = 0
    THEN <<[resp |-> NilResponse, err |-> <<"no choices in response">>]>>
    ELSE LET c == simpleConvertFromOpenAIResponse(reply.choices[1]) IN
         IF c.err # <<>>
         THEN <<[resp |-> NilResponse,
                 err |-> <<"failed to convert response">> \o c.err]>>
         ELSE <<[resp |-> [c.resp EXCEPT !.usage = <<Int32(reply.usage[1]),
                                                     Int32(reply.usage[2]),
                                                     Int32(reply.usage[3])>>],
                 err |-> <<>>]>>

\* Provider replies.
Choice(content, calls, finish) ==
    [content |-> content, toolCalls |-> calls, finish |-> finish]
ToolCall(n, a) == [name |-> n, arguments |-> a]
NoUsage == <<Count(0, 0), Count(0, 0), Count(0, 0)>>
Reply(choices) ==
    [err |-> "", choices |-> choices,
     usage |-> <<Count(0, 7), Count(0, 3), Count(0, 10)>>]
TransportFailure == [err |-> "transport", choices |-> <<>>, usage |-> NoUsage]
\* The provider call under a context that is done.
ContextDone(why) == [err |-> why, choices |-> <<>>, usage |-> NoUsage]
NoChoices == Reply(<<>>)
GoodArgs == "{\"query\":\"q\"}"
BadArgs == "{\"query\":"


----------------------------------------------------------------------------
(* internal/agents : the agents built at startup                           *)

NoTool == [name |-> "", kind |-> "none", target |-> ""]

\* The tools of the MCP server a collector spawns (mcp-kubernetes).
ServerTools(server) ==
    {[name |-> "list", kind |-> "mcp", target |-> server]}

\* Faulty variant: the management collector is built on the workload cluster's
\* server (the --in-cluster transport is not the one it gets).
ToolsetsOneServer(agent) ==
    CASE agent = "coordinator" ->
           {[name |-> "collect_wc_data", kind |-> "function", target |-> "wc_collector"],
            [name |-> "collect_mc_data", kind |-> "function", target |-> "mc_collector"]}
      [] agent = "wc_collector" -> ServerTools("wc_server")
      [] agent = "mc_collector" -> ServerTools("wc_server")
      [] OTHER -> {}

\* llmagent.Config.Toolsets of each agent.
Toolsets(agent) ==
    CASE agent = "coordinator" ->
           {[name |-> "collect_wc_data", kind |-> "function", target |-> "wc_collector"],
            [name |-> "collect_mc_data", kind |-> "function", target |-> "mc_collector"]}
      [] agent = "wc_collector" -> ServerTools("wc_server")
      [] agent = "mc_collector" -> ServerTools("mc_server")
      [] OTHER -> {}

\* The tool of that name in the agent's tool dictionary, if any.
LookupTool(agent, name) ==
    IF \E t \in Toolsets(agent) : t.name = name
    THEN CHOOSE t \in Toolsets(agent) : t.name = name
    ELSE NoTool

----------------------------------------------------------------------------
(* One Run: Coordinator.Run / CollectorAgent.Run over runner.Run           *)

UserTurn(q) ==
    [role |-> "user", text |-> <<q>>, calls |-> <<>>, results |-> <<>>, finish |-> ""]

\* The part.Text != "" parts of an event, in order.
RECURSIVE Texts(_)
Texts(parts) ==
    IF parts = <<>> THEN <<>>
    ELSE (IF Head(parts).text # "" THEN <<Head(parts).text>> ELSE <<>>)
         \o Texts(Tail(parts))

\* The function-call parts of a response, in order.
RECURSIVE FunctionCalls(_)
FunctionCalls(parts) ==
    IF parts = <<>> THEN <<>>
    ELSE (IF Head(parts).isCall THEN <<Head(parts).call>> ELSE <<>>)
         \o FunctionCalls(Tail(parts))

RECURSIVE Names(_)
Names(calls) ==
    IF calls = <<>> THEN <<>> ELSE <<Head(calls).name>> \o Names(Tail(calls))

ModelTurn(resp) ==
    [role |-> "model", text |-> Texts(resp.parts),
     calls |-> Names(FunctionCalls(resp.parts)), results |-> <<>>,
     finish |-> resp.finishReason]

\* The function-response event that carries the results of one turn's calls.
ResultTurn(results) ==
    [role |-> "user", text |-> <<>>, calls |-> <<>>, results |-> results, finish |-> ""]

NoRun ==
    [status |-> "none", pc |-> "end", agent |-> "none", calls |-> 0,
     transcript |-> <<>>, pending |-> <<>>, results |-> <<>>, out |-> <<>>,
     result |-> <<>>, err |-> <<>>, session |-> <<>>, query |-> "", inputs |-> <<>>]

Agents == {"coordinator"} \cup Collectors
Servers == {"wc_server", "mc_server"}

\* Faulty variant: the service hands out a session it already holds.
CreateOnce(store, uuid) ==
    IF store = {} THEN [store |-> {[id |-> uuid, events |-> <<>>]},
                        session |-> [id |-> uuid, events |-> <<>>]]
    ELSE [store |-> store, session |-> CHOOSE x \in store : TRUE]

\* sessionSvc.Create without a session id: a new, empty session under a
\* generated id (uuid) is added to the sessions the service holds.
Create(store, uuid) ==
    [store |-> store \cup {[id |-> uuid, events |-> <<>>]},
     session |-> [id |-> uuid, events |-> <<>>]]

\* The session services (one per agent) after an agent's Create.
CreateFor(st, agent, uuid) ==
    IF agent \in DOMAIN st THEN [st EXCEPT ![agent] = Create(@, uuid).store] ELSE st

\* The runner appends the Run's events to the Run's session.
Save(st, run) ==
    IF run.agent \in DOMAIN st
    THEN [st EXCEPT ![run.agent] =
            {IF x.id = run.session THEN [x EXCEPT !.events = run.transcript] ELSE x :
               x \in @}]
    ELSE st

\* The user message and the start of runner.Run in the session created
\* for the Run.  A collector first lists the tools of its MCP toolset for
\* its request, which connects the toolset on first use.
NewRun(agent, query, sess) ==
    [NoRun EXCEPT !.status = "running",
                  !.pc = IF agent \in Collectors THEN "tools" ELSE "model",
                  !.agent = agent,
                  !.session = sess.id, !.query = query,
                  !.transcript = Append(sess.events, UserTurn(query))]

\* What a Run is given from outside after its query, in order: the provider's
\* reply to each model call, and what each tool call returned.
ModelInput(reply) == [kind |-> "model", reply |-> reply, ok |-> TRUE, payload |-> <<>>]
ToolInput(ok, payload) ==
    [kind |-> "tool", reply |-> Reply(<<>>), ok |-> ok, payload |-> payload]
Received(run, input) == [run EXCEPT !.inputs = Append(@, input)]

\* args.Query of the arguments decoded into CollectorArgs.
ArgsQuery(args) ==
    IF \E kv \in args : kv[1] = "query"
    THEN (CHOOSE kv \in args : kv[1] = "query")[2] ELSE ""

\* Faulty variant: the text gathered before the error is returned with it.
RunFailedKeepsText(run, prefix, err) ==
    [run EXCEPT !.status = "Failed", !.pc = "end", !.err = <<prefix>> \o err,
                !.result = run.out, !.pending = <<>>, !.results = <<>>]

\* lastError != nil: the Run returns ("", wrapped error).
RunFailed(run, prefix, err) ==
    [run EXCEPT !.status = "Failed", !.pc = "end", !.err = <<prefix>> \o err,
                !.result = <<>>, !.pending = <<>>, !.results = <<>>]

\* The event stream ended without error: the Run returns (finalOutput, nil).
RunCompleted(run) ==
    [run EXCEPT !.status = "Completed", !.pc = "end", !.result = run.out]

ErrorPrefix(agent) ==
    IF agent = "coordinator" THEN "coordinator execution failed"
    ELSE "agent execution failed"

\* Faulty variant: a failed model call leaves an empty model turn in the transcript.
OnModelYieldRecordsFailure(run, y) ==
    IF y.err # <<>>
    THEN RunFailed([run EXCEPT !.transcript = Append(@, ModelTurn(y.resp))],
                   ErrorPrefix(run.agent), y.err)
    ELSE LET ev == [run EXCEPT !.transcript = Append(@, ModelTurn(y.resp)),
                               !.out = @ \o Texts(y.resp.parts)]
             calls == FunctionCalls(y.resp.parts)
         IN IF calls = <<>> THEN RunCompleted(ev)
            ELSE [ev EXCEPT !.pending = calls, !.results = <<>>, !.pc = "dispatch"]

\* One (response, error) pair of the model reaches the Run's event loop.
OnModelYield(run, y) ==
    IF y.err # <<>> THEN RunFailed(run, ErrorPrefix(run.agent), y.err)
    ELSE LET ev == [run EXCEPT !.transcript = Append(@, ModelTurn(y.resp)),
                               !.out = @ \o Texts(y.resp.parts)]
             calls == FunctionCalls(y.resp.parts)
         IN IF calls = <<>> THEN RunCompleted(ev)
            ELSE [ev EXCEPT !.pending = calls, !.results = <<>>, !.pc = "dispatch"]

\* The next function call of the turn is looked up in the agent's tools and
\* started; when none is left, the results become one function-response
\* event and the model is called again.  This is the runner of the agent
\* library behind runner.Run, not code of the repository: a name that is
\* not among the agent's tools is taken to end the Run with an error.
Dispatch(run) ==
    IF run.pending = <<>>
    THEN [run EXCEPT !.transcript = Append(@, ResultTurn(run.results)),
                     !.results = <<>>, !.pc = "model"]
    ELSE LET t == LookupTool(run.agent, Head(run.pending).name) IN
         IF t.kind = "none"
         THEN RunFailed(run, ErrorPrefix(run.agent), <<"unknown tool">>)
         ELSE [run EXCEPT !.pc = IF t.kind = "function" THEN "delegating" ELSE "tool"]

\* A function call's result is recorded for the turn.
AddResult(run, ok, payload) ==
    [run EXCEPT !.results = Append(@, [name |-> Head(run.pending).name,
                                        ok |-> ok, payload |-> payload]),
                !.pending = Tail(@), !.pc = "dispatch"]

\* Faulty variant: the delegation returns as soon as the collector is not waiting
\* for a tool, whether or not its Run has ended.
DelegationDoneEarly(cl) == cl.pc # "tool"

\* The nested Run a delegation waits for has returned.
DelegationDone(cl) == cl.status \in {"Completed", "Failed"}

\* The collect_wc_data / collect_mc_data closure after collector.Run returned.
CollectorResult(cl) ==
    IF cl.err # <<>>
    THEN [result |-> <<>>,
          err |-> <<IF cl.agent = "wc_collector" THEN "WC collector failed"
                    ELSE "MC collector failed">> \o cl.err]
    ELSE [result |-> cl.result, err |-> <<>>]

\* The runtime turns a tool's (result, error) into the function response.
\* The closures of the repository only return the pair; that the runner of
\* the agent library records an error as the call's response and goes on
\* is taken from the library, not from the repository.
FunctionResponse(run, r) ==
    IF r.err # <<>> THEN AddResult(run, FALSE, r.err)
    ELSE AddResult(run, TRUE, r.result)

----------------------------------------------------------------------------
(* internal/config/config.go, main.go : configuration and start-up        *)

\* Environments of the process: "" is a variable that is unset or empty.
Envs ==
    {[OPENAI_API_KEY |-> k, OPENAI_COORDINATOR_MODEL |-> m,
      OPENAI_COLLECTOR_MODEL |-> c, WC_CLUSTER |-> w, ORG_NS |-> o, DEBUG |-> d,
      OTEL_EXPORTER_OTLP_ENDPOINT |-> e, OTEL_EXPORTER_OTLP_INSECURE |-> i,
      SERVER_PORT |-> p] :
        k \in {"", "sk"}, m \in {"", "gpt-4o"}, c \in {"", "gpt-4"},
        w \in {"", "wc1"}, o \in {"org1"}, d \in {"", "TRUE", "no"},
        e \in {"", "otel:4318"}, i \in {"true"}, p \in {"", "9000"}}

GoodEnv ==
    [OPENAI_API_KEY |-> "sk", OPENAI_COORDINATOR_MODEL |-> "gpt-4o",
     OPENAI_COLLECTOR_MODEL |-> "", WC_CLUSTER |-> "wc1", ORG_NS |-> "org1",
     DEBUG |-> "", OTEL_EXPORTER_OTLP_ENDPOINT |-> "",
     OTEL_EXPORTER_OTLP_INSECURE |-> "true", SERVER_PORT |-> ""]

\* Faulty variant: the default is never taken.
getEnvOrDefaultNoDefault(value, defaultValue) == value

getEnvOrDefault(value, defaultValue) == IF value # "" THEN value ELSE defaultValue

\* strings.ToLower over the values of the environments.
ToLower(str) ==
    CASE str \in {"TRUE", "True", "tRuE"} -> "true"
      [] str \in {"YES", "Yes"} -> "yes"
      [] str = "NO" -> "no"
      [] str = "ON" -> "on"
      [] OTHER -> str

isDebugEnabled(env) == ToLower(env.DEBUG) \in {"true", "1", "yes"}

NoConfig ==
    [nil |-> TRUE, OpenAIAPIKey |-> "", OpenAICoordinatorModel |-> "",
     OpenAICollectorModel |-> "", WCCluster |-> "", OrgNS |-> "", Debug |-> FALSE,
     OTELEndpoint |-> "", OTELInsecure |-> FALSE, ServerPort |-> ""]

\* LoadConfig: the configuration and a nil error, or nil and the error.
LoadConfig(env) ==
    LET cfg == [nil |-> FALSE,
                OpenAIAPIKey |-> env.OPENAI_API_KEY,
                OpenAICoordinatorModel |-> env.OPENAI_COORDINATOR_MODEL,
                OpenAICollectorModel |->
                    getEnvOrDefault(env.OPENAI_COLLECTOR_MODEL, "gpt-4o-mini"),
                WCCluster |-> getEnvOrDefault(env.WC_CLUSTER, "workload cluster"),
                OrgNS |-> getEnvOrDefault(env.ORG_NS, "organization namespace"),
                Debug |-> isDebugEnabled(env),
                OTELEndpoint |-> getEnvOrDefault(env.OTEL_EXPORTER_OTLP_ENDPOINT, ""),
                OTELInsecure |->
                    getEnvOrDefault(env.OTEL_EXPORTER_OTLP_INSECURE, "false") = "true",
                ServerPort |-> getEnvOrDefault(env.SERVER_PORT, "8000")]
    IN IF cfg.OpenAIAPIKey = ""
       THEN [cfg |-> NoConfig,
             err |-> <<"OPENAI_API_KEY environment variable is required">>]
       ELSE IF cfg.OpenAICoordinatorModel = ""
       THEN [cfg |-> NoConfig,
             err |-> <<"OPENAI_COORDINATOR_MODEL environment variable is required">>]
       ELSE [cfg |-> cfg, err |-> <<>>]

\* Strings are sequences of symbols; a key's name is one symbol.
Placeholder(key) == <<"$", "{", key, "}">>

\* strings.ReplaceAll(str, old, new) for a non-empty old.
RECURSIVE ReplaceAll(_, _, _)
ReplaceAll(str, old, new) ==
    IF Len(str) < Len(old) THEN str
    ELSE IF SubSeq(str, 1, Len(old)) = old
    THEN new \o ReplaceAll(SubSeq(str, Len(old) + 1, Len(str)), old, new)
    ELSE <<Head(str)>> \o ReplaceAll(Tail(str), old, new)

\* The orders in which range can visit the keys of a map.
RECURSIVE Orders(_)
Orders(keys) ==
    IF keys = {} THEN {<<>>}
    ELSE UNION {{<<k>> \o o : o \in Orders(keys \ {k})} : k \in keys}

\* substituteTemplate(template, vars), with range visiting the keys in order.
RECURSIVE substituteTemplate(_, _, _)
substituteTemplate(template, bound, order) ==
    IF order = <<>> THEN template
    ELSE substituteTemplate(
             ReplaceAll(template, Placeholder(Head(order)), bound[Head(order)]),
             bound, Tail(order))

\* The prompt files, as far as their placeholders go.
PromptTemplate(agent) ==
    CASE agent = "wc_collector" -> <<"text">> \o Placeholder("WC_CLUSTER")
      [] agent = "mc_collector" ->
           Placeholder("ORG_NS") \o <<"text">> \o Placeholder("WC_CLUSTER")
             \o Placeholder("ORG_NS")
      [] OTHER ->
           Placeholder("WC_CLUSTER") \o <<"text">> \o Placeholder("WC_CLUSTER")
             \o Placeholder("ORG_NS")

\* The map each constructor passes to substituteTemplate.
AgentBindings(agent, cfg) ==
    IF agent = "wc_collector" THEN [k \in {"WC_CLUSTER"} |-> <<cfg.WCCluster>>]
    ELSE [k \in {"WC_CLUSTER", "ORG_NS"} |->
            IF k = "WC_CLUSTER" THEN <<cfg.WCCluster>> ELSE <<cfg.OrgNS>>]

\* The agent a constructor returns: llmagent.Config and the wrapper's fields.
BuildAgent(agent, cfg, order) ==
    [name |-> agent,
     instruction |-> substituteTemplate(PromptTemplate(agent),
                                        AgentBindings(agent, cfg), order),
     model |-> IF agent = "coordinator" THEN cfg.OpenAICoordinatorModel
               ELSE cfg.OpenAICollectorModel,
     tools |-> Toolsets(agent),
     debug |-> agent = "coordinator" /\ cfg.Debug]

\* NewSimpleOpenAIModel: the error, if any.
NewSimpleOpenAIModel(apiKey, modelName) ==
    IF apiKey = "" THEN <<"OpenAI API key is required">>
    ELSE IF modelName = "" THEN <<"model name is required">>
    ELSE <<>>

\* The server a collector's constructor builds its MCP toolset for.
ToolsetServer(agent) == IF agent = "wc_collector" THEN "wc_server" ELSE "mc_server"

\* NewWCCollector, NewMCCollector, NewCoordinator: the error, if any, of
\* the first step that fails: os.ReadFile of the prompt, the model
\* adapter, then mcptoolset.New (a collector) or functiontool.New for
\* collect_wc_data and for collect_mc_data (the coordinator), llmagent.New
\* and runner.New.
NewAgent(agent, cfg, w) ==
    IF agent \notin w.files THEN <<"failed to read prompt">>
    ELSE LET e == NewSimpleOpenAIModel(cfg.OpenAIAPIKey,
                      IF agent = "coordinator" THEN cfg.OpenAICoordinatorModel
                      ELSE cfg.OpenAICollectorModel)
         IN IF e # <<>> THEN <<"failed to create OpenAI model">> \o e
            ELSE IF agent \in Collectors /\ ToolsetServer(agent) \notin w.servers
            THEN <<"failed to create MCP toolset">>
            ELSE IF agent = "coordinator" /\ w.adk = "functiontool wc"
            THEN <<"failed to create WC collector tool">>
            ELSE IF agent = "coordinator" /\ w.adk = "functiontool mc"
            THEN <<"failed to create MC collector tool">>
            ELSE IF w.adk = "llmagent"
            THEN <<IF agent = "coordinator" THEN "failed to create coordinator agent"
                   ELSE "failed to create agent">>
            ELSE IF w.adk = "runner" THEN <<"failed to create runner">>
            ELSE <<>>

\* initOTEL: the error, if any (exporter: otlptracehttp.New succeeds).
initOTEL(cfg, exporter) ==
    IF cfg.OTELEndpoint = "" THEN <<>>
    ELSE IF ~exporter THEN <<"failed to create OTLP exporter">>
    ELSE <<>>

\* What the process runs in: the prompt files that can be read, the tool
\* servers for whose toolset mcptoolset.New returns no error (the notes of
\* the repository name a missing or non-executable mcp-kubernetes binary
\* as the cause of that error), the call of the agent library that returns
\* an error, whether the trace exporter can be created and whether the
\* port is free.
Worlds ==
    {[files |-> f, servers |-> sv, adk |-> k, exporter |-> x, port |-> pt] :
        f \in {Agents} \cup {Agents \ {a} : a \in Agents},
        sv \in {{"wc_server", "mc_server"}, {"wc_server"}, {"mc_server"}},
        k \in {"none", "functiontool wc", "functiontool mc", "llmagent", "runner"},
        x \in BOOLEAN, pt \in BOOLEAN}
GoodWorld ==
    [files |-> Agents, servers |-> {"wc_server", "mc_server"}, adk |-> "none",
     exporter |-> TRUE, port |-> TRUE]

NoProcess ==
    [pc |-> "load", cfg |-> NoConfig, built |-> {}, agents |-> {}, warned |-> FALSE,
     fatal |-> <<>>, shutdown |-> "waiting", accepted |-> {}]

\* Faulty variant: the error is logged and main goes on.
ProceedLogged(p, next, msg, err) == [p EXCEPT !.pc = next]

\* if err != nil { log.Fatalf(msg, err) }: the process exits on an error
\* and goes on to the next statement without one.
Proceed(p, next, msg, err) ==
    IF err # <<>> THEN [p EXCEPT !.pc = "exited", !.fatal = <<msg>> \o err]
    ELSE [p EXCEPT !.pc = next]

\* main once ListenAndServe serves: what Init of the handlers assumes.
Serving(env) ==
    [NoProcess EXCEPT !.pc = "listening", !.cfg = LoadConfig(env).cfg,
                      !.built = Agents,
                      !.agents = {BuildAgent(a, LoadConfig(env).cfg,
                                             <<"WC_CLUSTER", "ORG_NS">>) : a \in Agents}]

NoReady == [code |-> 0, status |-> "", checks |-> {}]

\* ReadyHandler: the status code and the ReadyResponse written.
ReadyResponse(p) ==
    LET checks == {<<"kubernetes_wc", "wc_collector" \in p.built>>,
                   <<"kubernetes_mc", "mc_collector" \in p.built>>,
                   <<"coordinator", "coordinator" \in p.built>>}
    IN [code |-> IF \E c \in checks : ~c[2] THEN 503 ELSE 200,
        status |-> "ready", checks |-> checks]

----------------------------------------------------------------------------
(* internal/server/handlers.go                                             *)

\* The requests a client sends: the method, and the body that follows.
Methods == {"GET", "POST"}
Bodies == {"not json", "{}", "{\"query\":\"\"}", "{\"query\":\"q\"}"}

\* json.NewDecoder(r.Body).Decode(&req)
DecodeBody(b) ==
    CASE b = "{\"query\":\"q\"}" -> [ok |-> TRUE, query |-> "q"]
      [] b = "{}" -> [ok |-> TRUE, query |-> ""]
      [] b = "{\"query\":\"\"}" -> [ok |-> TRUE, query |-> ""]
      [] OTHER -> [ok |-> FALSE, query |-> ""]

\* ctx.Err() once the request's context is done: context.Canceled when the
\* client went away, context.DeadlineExceeded when the 5 minute timeout of
\* QueryHandler passed.
ContextErr(cause) ==
    IF cause = "timeout" THEN "context deadline exceeded" ELSE "context canceled"

NoRequest ==
    [pc |-> "new", method |-> "", input |-> "", code |-> 0, body |-> <<>>,
     runs |-> 0, cancel |-> ""]

\* The method check, which QueryHandler makes before it reads the body.
RejectsMethod(method) ==
    IF method # "POST" THEN [code |-> 405, detail |-> <<"Method not allowed">>]
    ELSE [code |-> 0, detail |-> <<>>]

\* Faulty variant: the check for an empty query is missing.
RejectsWithoutQueryCheck(method, body) ==
    IF RejectsMethod(method).code # 0 THEN RejectsMethod(method)
    ELSE IF ~DecodeBody(body).ok
    THEN [code |-> 400, detail |-> <<"Invalid request body">>]
    ELSE [code |-> 0, detail |-> <<>>]

\* The checks of QueryHandler before the Run: the status it rejects the
\* request with, or 0 when it goes on to run the coordinator.
Rejects(method, body) ==
    IF RejectsMethod(method).code # 0 THEN RejectsMethod(method)
    ELSE IF ~DecodeBody(body).ok
    THEN [code |-> 400, detail |-> <<"Invalid request body">>]
    ELSE IF DecodeBody(body).query = ""
    THEN [code |-> 400, detail |-> <<"Query is required">>]
    ELSE [code |-> 0, detail |-> <<>>]

Respond(h, code, body) == [h EXCEPT !.pc = "done", !.code = code, !.body = body]

VARIABLES
    http,         \* per request: the handler's position and its response
    coord,        \* per request: the coordinator Run
    coll,         \* per request: the collector Run of the delegation in flight
    delegations,  \* per request: the delegation calls that returned
    invoked,      \* the tools started so far, with the agent that started them
    replies,      \* provider replies consumed
    sessions,     \* per agent: the sessions its session service holds
    conns,        \* per MCP server: the toolset's connection and its users
    env,          \* the environment variables of the process
    world,        \* the files, exporter and port the process finds
    proc,         \* main: its position, configuration and agents
    ready,        \* the last response of ReadyHandler
    provided,     \* a function alone: the input it is given
    yielded,      \* a function alone: what it returned
    script        \* the job-runner script: its clock, its job and its position

avars == <<provided, yielded, script>>
svars == <<http, coord, coll, delegations, invoked, replies, sessions, conns>>
mvars == <<env, world, proc, ready>>
vars == <<http, coord, coll, delegations, invoked, replies, sessions, conns,
          env, world, proc, ready, provided, yielded, script>>

NoConn == [state |-> "unopened", users |-> {}]

\* The job-runner script before its wait loop: no job applied, nothing read.
NoScript ==
    [pc |-> "none", now |-> 0, job |-> "none", complete |-> "", failed |-> "",
     code |-> 0, erred |-> FALSE]

Init ==
    /\ http = [r \in Reqs |-> NoRequest]
    /\ coord = [r \in Reqs |-> NoRun]
    /\ coll = [r \in Reqs |-> NoRun]
    /\ delegations = [r \in Reqs |-> <<>>]
    /\ invoked = {}
    /\ replies = 0
    /\ sessions = [a \in Agents |-> {}]
    /\ conns = [s \in Servers |-> NoConn]
    /\ env = GoodEnv /\ world = GoodWorld
    /\ proc = Serving(GoodEnv) /\ ready = NoReady
    /\ provided = NoChoices
    /\ yielded = <<>>
    /\ script = NoScript

\* Replies of the provider to a coordinator's call.
CoordinatorReplies ==
    {TransportFailure, NoChoices,
     Reply(<<Choice("answer", <<>>, "stop")>>),
     Reply(<<Choice("answer", <<>>, "length")>>),
     Reply(<<Choice("", <<ToolCall("collect_wc_data", GoodArgs)>>, "tool_calls")>>),
     Reply(<<Choice("", <<ToolCall("collect_mc_data", GoodArgs)>>, "tool_calls")>>),
     Reply(<<Choice("", <<ToolCall("collect_wc_data", BadArgs)>>, "tool_calls")>>),
     Reply(<<Choice("", <<ToolCall("list", GoodArgs)>>, "tool_calls")>>),
     Reply(<<Choice("plan", <<ToolCall("collect_wc_data", GoodArgs),
                              ToolCall("collect_mc_data", GoodArgs)>>, "tool_calls")>>)}

\* Replies of the provider to a collector's call.
CollectorReplies ==
    {TransportFailure,
     Reply(<<Choice("data", <<>>, "stop")>>),
     Reply(<<Choice("", <<ToolCall("list", GoodArgs)>>, "tool_calls")>>),
     Reply(<<Choice("note", <<ToolCall("list", GoodArgs)>>, "tool_calls")>>),
     Reply(<<Choice("", <<ToolCall("list", BadArgs)>>, "tool_calls")>>),
     Reply(<<Choice("", <<ToolCall("collect_mc_data", GoodArgs)>>, "tool_calls")>>)}

Started(run) ==
    LET t == LookupTool(run.agent, Head(run.pending).name) IN
    [agent |-> run.agent, tool |-> t.name, kind |-> t.kind, target |-> t.target]

\* The coordinator Run moved: start the next delegation, call the model
\* again, or return to QueryHandler, which writes the response.
CoordinatorSettles(r, co0, cl) ==
    LET co == IF co0.pc = "dispatch" THEN Dispatch(co0) ELSE co0
        saved == Save(Save(sessions, cl), co)
        uuid == <<r, Len(co.transcript), Len(co.results) + 1>> IN
    /\ coord' = [coord EXCEPT ![r] = co]
    /\ IF co.pc \in {"delegating", "tool"}
       THEN /\ coll' = [coll EXCEPT ![r] =
                          NewRun(Started(co).target,
                                 ArgsQuery(Head(co.pending).args),
                                 IF Started(co).target \in Agents
                                 THEN Create(saved[Started(co).target], uuid).session
                                 ELSE [id |-> uuid, events |-> <<>>])]
            /\ sessions' = CreateFor(saved, Started(co).target, uuid)
            /\ invoked' = invoked \cup {Started(co)}
       ELSE /\ coll' = [coll EXCEPT ![r] = cl]
            /\ sessions' = saved
            /\ UNCHANGED invoked
    /\ http' = [http EXCEPT ![r] =
                  CASE co.status = "Failed" -> Respond(@, 500, co.err)
                    [] co.status = "Completed" -> Respond(@, 200, co.result)
                    [] OTHER -> @]

\* QueryHandler is entered for a request the server accepted, on a
\* connection of the listening server or on one it accepted before
\* Shutdown was called: the method check, then the wait in Decode for the
\* body the client is still sending.
QueryHandler(r, method) ==
    /\ proc.pc = "listening" \/ r \in proc.accepted
    /\ http[r].pc = "new"
    /\ LET rej == RejectsMethod(method)
           h == [http[r] EXCEPT !.method = method] IN
       http' = [http EXCEPT ![r] =
                  IF rej.code # 0 THEN Respond(h, rej.code, rej.detail)
                  ELSE [h EXCEPT !.pc = "reading"]]
    /\ proc' = proc
    /\ UNCHANGED <<coord, coll, delegations, invoked, replies, sessions, conns,
                   avars, env, world, ready>>

\* Decode returns with the body, whenever the client has sent it: the
\* handler goes on whether or not the server still listens, to its early
\* return or up to the first provider call.  A client that goes away before
\* the body is complete gives Decode an error, as a body that is not JSON.
QueryHandlerDecoded(r, body) ==
    /\ http[r].pc = "reading"
    /\ LET rej == Rejects(http[r].method, body)
           h == [http[r] EXCEPT !.input = body] IN
       IF rej.code # 0
       THEN /\ http' = [http EXCEPT ![r] = Respond(h, rej.code, rej.detail)]
            /\ UNCHANGED <<coord, sessions>>
       ELSE /\ http' = [http EXCEPT ![r] = [h EXCEPT !.pc = "running", !.runs = @ + 1]]
            /\ sessions' = CreateFor(sessions, "coordinator", <<r, 0, 0>>)
            /\ coord' = [coord EXCEPT ![r] =
                           NewRun("coordinator", DecodeBody(body).query,
                                  Create(sessions["coordinator"], <<r, 0, 0>>).session)]
    /\ proc' = proc
    /\ UNCHANGED <<coll, delegations, invoked, replies, conns, avars, env, world, ready>>

\* The ways a request's context ends that are followed: the first
\* request's client goes away, the second request's handler times out.
\* The handlers are the same for both requests, so each way is followed
\* from every position of a request, alone and next to the other way.
Causes(r) == IF r = "r1" THEN {"client"} ELSE {"timeout"}

\* The request's context is done (client gone, or the 5 minute timeout)
\* while the handler waits in a provider, connect or tool call.
Cancel(r, cause) ==
    /\ http[r].pc = "running"
    /\ http[r].cancel = ""
    /\ http' = [http EXCEPT ![r].cancel = ContextErr(cause)]
    /\ UNCHANGED <<coord, coll, delegations, invoked, replies, sessions, conns, avars, mvars>>

\* The calls a request can be waiting in; each is made with the request's
\* context and returns when that context is done.
InCoordinatorModelCall(r) == coord[r].status = "running" /\ coord[r].pc = "model"
InCollectorModelCall(r) ==
    coord[r].pc = "delegating" /\ coll[r].status = "running" /\ coll[r].pc = "model"
InToolCall(r) ==
    coord[r].pc = "delegating" /\ coll[r].status = "running" /\ coll[r].pc = "tool"
InListTools(r) ==
    coord[r].pc = "delegating" /\ coll[r].status = "running" /\ coll[r].pc = "tools"

\* The server a collector's toolset is connected to.
ServerOf(agent) ==
    IF Toolsets(agent) = {} THEN "none" ELSE (CHOOSE t \in Toolsets(agent) : TRUE).target

\* The toolset's connection after a Run listed its tools: the toolset
\* connects on first use and keeps the connection for every later Run
\* (the toolset is the library's; the repository builds it once, at
\* start-up, and never closes it).
Opened(cs, server, run) ==
    IF server \in DOMAIN cs
    THEN [cs EXCEPT ![server] = [state |-> "open", users |-> @.users \cup {run}]]
    ELSE cs

\* The toolset's connections after a server could not be started.
Broken(cs, server) ==
    IF server \in DOMAIN cs THEN [cs EXCEPT ![server].state = "failed"] ELSE cs

\* Faulty variant: the provider call is made under a context of its own.
UnderContextDetached(r, reply) == reply

\* What the provider call returns under the request's context.
UnderContext(r, reply) ==
    IF http[r].cancel # "" THEN ContextDone(http[r].cancel) ELSE reply

\* The coordinator's provider call returns.
CoordinatorModelCall(r, reply) ==
    /\ InCoordinatorModelCall(r)
    /\ IF http[r].cancel # "" THEN reply = TransportFailure ELSE replies < MaxReplies
    /\ replies' = IF http[r].cancel # "" THEN replies ELSE replies + 1
    /\ CoordinatorSettles(r,
         OnModelYield(Received([coord[r] EXCEPT !.calls = @ + 1],
                               ModelInput(UnderContext(r, reply))),
                      Head(GenerateContent(UnderContext(r, reply)))),
         coll[r])
    /\ proc' = proc
    /\ UNCHANGED <<delegations, conns, avars, env, world, ready>>

\* The collector Run moved: wait for its tool, call the model again, or
\* return to the delegation tool, which returns to the coordinator.
CollectorSettles(r, cl0) ==
    LET cl == IF cl0.pc = "dispatch" THEN Dispatch(cl0) ELSE cl0 IN
    IF DelegationDone(cl)
    THEN /\ delegations' = [delegations EXCEPT ![r] =
                Append(@, [tool |-> Head(coord[r].pending).name, run |-> cl,
                           cancel |-> http[r].cancel,
                           returned |-> CollectorResult(cl)])]
         /\ CoordinatorSettles(r,
              FunctionResponse(
                  Received(coord[r], ToolInput(CollectorResult(cl).err = <<>>,
                                               CollectorResult(cl).result
                                                   \o CollectorResult(cl).err)),
                  CollectorResult(cl)), cl)
    ELSE /\ coll' = [coll EXCEPT ![r] = cl]
         /\ sessions' = Save(sessions, cl)
         /\ invoked' = IF cl.pc \in {"tool", "delegating"}
                       THEN invoked \cup {Started(cl)} ELSE invoked
         /\ UNCHANGED <<coord, http, delegations>>

\* The collector's provider call returns.
CollectorModelCall(r, reply) ==
    /\ InCollectorModelCall(r)
    /\ IF http[r].cancel # "" THEN reply = TransportFailure ELSE replies < MaxReplies
    /\ replies' = IF http[r].cancel # "" THEN replies ELSE replies + 1
    /\ CollectorSettles(r,
         OnModelYield(Received([coll[r] EXCEPT !.calls = @ + 1],
                               ModelInput(UnderContext(r, reply))),
                      Head(GenerateContent(UnderContext(r, reply)))))
    /\ proc' = proc
    /\ UNCHANGED <<conns, avars, env, world, ready>>

\* The collector Run lists the tools of its toolset for its first model
\* request: the toolset connects to its server, or uses the connection it
\* has, and the provider call is made next.
CollectorListsTools(r) ==
    /\ InListTools(r)
    /\ http[r].cancel = ""
    /\ conns[ServerOf(coll[r].agent)].state # "failed"
    /\ conns' = Opened(conns, ServerOf(coll[r].agent), coll[r].session)
    /\ CollectorSettles(r, [coll[r] EXCEPT !.pc = "model"])
    /\ proc' = proc
    /\ UNCHANGED <<replies, avars, env, world, ready>>

\* The MCP server answers the collector's tool call, or the call fails.
ToolReturns(r, ok) ==
    /\ InToolCall(r)
    /\ CollectorSettles(r,
         IF http[r].cancel # ""
         THEN AddResult(Received(coll[r], ToolInput(FALSE, <<http[r].cancel>>)),
                        FALSE, <<http[r].cancel>>)
         ELSE IF ok
         THEN AddResult(Received(coll[r], ToolInput(TRUE, <<"items">>)),
                        TRUE, <<"items">>)
         ELSE AddResult(Received(coll[r], ToolInput(FALSE, <<"tool call failed">>)),
                        FALSE, <<"tool call failed">>))
    /\ proc' = proc
    /\ UNCHANGED <<replies, conns, avars, env, world, ready>>

\* Listing the tools fails: the server process cannot be started, or the
\* request's context ended while the toolset was connecting or listing.
\* The Run ends there with the connect's error.  The command of the
\* transport is started once, so a connect that failed stays failed; a
\* connection that was open stays open.
ConnectFails(r) ==
    /\ InListTools(r)
    /\ http[r].cancel # "" \/ conns[ServerOf(coll[r].agent)].state # "open"
    /\ conns' = IF conns[ServerOf(coll[r].agent)].state # "open"
                THEN Broken(conns, ServerOf(coll[r].agent)) ELSE conns
    /\ LET err == <<"failed to connect">>
                     \o (IF http[r].cancel # "" THEN <<http[r].cancel>> ELSE <<>>) IN
       CollectorSettles(r,
         RunFailed(Received(coll[r], ToolInput(FALSE, err)),
                   ErrorPrefix(coll[r].agent), err))
    /\ proc' = proc
    /\ UNCHANGED <<replies, avars, env, world, ready>>

Next ==
    \E r \in Reqs :
        \/ \E method \in Methods : QueryHandler(r, method)
        \/ \E body \in Bodies : QueryHandlerDecoded(r, body)
        \/ \E cause \in Causes(r) : Cancel(r, cause)
        \/ \E reply \in CoordinatorReplies : CoordinatorModelCall(r, reply)
        \/ CollectorListsTools(r)
        \/ \E reply \in CollectorReplies : CollectorModelCall(r, reply)
        \/ \E ok \in BOOLEAN : ToolReturns(r, ok)
        \/ ConnectFails(r)

Spec == Init /\ [][Next]_vars

----------------------------------------------------------------------------
(* main: start-up, then the handlers of a process that serves              *)

InitMain ==
    /\ http = [r \in Reqs |-> NoRequest]
    /\ coord = [r \in Reqs |-> NoRun]
    /\ coll = [r \in Reqs |-> NoRun]
    /\ delegations = [r \in Reqs |-> <<>>]
    /\ invoked = {}
    /\ replies = 0
    /\ sessions = [a \in Agents |-> {}]
    /\ conns = [s \in Servers |-> NoConn]
    /\ env \in Envs /\ world \in Worlds
    /\ proc = NoProcess /\ ready = NoReady
    /\ provided = NoChoices
    /\ yielded = <<>>
    /\ script = NoScript

\* cfg, err := config.LoadConfig()
MainLoadConfig ==
    /\ proc.pc = "load"
    /\ proc' = Proceed([proc EXCEPT !.cfg = LoadConfig(env).cfg], "otel",
                       "Failed to load configuration", LoadConfig(env).err)
    /\ UNCHANGED <<svars, avars, env, world, ready>>

\* shutdown, err := initOTEL(ctx, cfg): a failure is logged as a warning.
MainInitOTEL ==
    /\ proc.pc = "otel"
    /\ proc' = [proc EXCEPT !.pc = "wc_collector",
                            !.warned = initOTEL(proc.cfg, world.exporter) # <<>>]
    /\ UNCHANGED <<svars, avars, env, world, ready>>

\* agents.NewWCCollector, agents.NewMCCollector, agents.NewCoordinator.
MainNewAgent(agent, next, msg) ==
    /\ proc.pc = agent
    /\ LET err == NewAgent(agent, proc.cfg, world) IN
       \E order \in Orders(DOMAIN AgentBindings(agent, proc.cfg)) :
           proc' = Proceed([proc EXCEPT
                              !.built = IF err = <<>> THEN @ \cup {agent} ELSE @,
                              !.agents = IF err = <<>>
                                         THEN @ \cup {BuildAgent(agent, proc.cfg, order)}
                                         ELSE @],
                           next, msg, err)
    /\ UNCHANGED <<svars, avars, env, world, ready>>

\* httpServer.ListenAndServe()
MainListenAndServe ==
    /\ proc.pc = "serve"
    /\ proc' = Proceed(proc, "listening", "Server failed",
                       IF world.port THEN <<>> ELSE <<"listen: address already in use">>)
    /\ UNCHANGED <<svars, avars, env, world, ready>>

\* GET /ready
ReadyHandler ==
    /\ proc.pc = "listening"
    /\ ready' = ReadyResponse(proc)
    /\ proc' = proc
    /\ UNCHANGED <<svars, avars, env, world>>

NextMain ==
    \/ MainLoadConfig
    \/ MainInitOTEL
    \/ MainNewAgent("wc_collector", "mc_collector", "Failed to create WC collector")
    \/ MainNewAgent("mc_collector", "coordinator", "Failed to create MC collector")
    \/ MainNewAgent("coordinator", "serve", "Failed to create coordinator")
    \/ MainListenAndServe
    \/ ReadyHandler
    \/ \E r \in Reqs : \E method \in Methods : QueryHandler(r, method)
    \/ \E r \in Reqs : \E body \in Bodies : QueryHandlerDecoded(r, body)

SpecMain == InitMain /\ [][NextMain]_vars

\* The serving process with its readiness probe.
NextReady == Next \/ ReadyHandler

SpecReady == Init /\ [][NextReady]_vars

----------------------------------------------------------------------------
(* The adapter alone, over the provider replies up to MaxToolCalls calls   *)

RECURSIVE SeqsUpTo(_, _)
SeqsUpTo(S, n) ==
    IF n = 0 THEN {<<>>}
    ELSE SeqsUpTo(S, n - 1)
         \cup {Append(q, x) : q \in {q \in SeqsUpTo(S, n - 1) : Len(q) = n - 1}, x \in S}

ProviderToolCalls ==
    {ToolCall(n, a) : n \in {"collect_wc_data", "list"}, a \in ArgStrings}

\* resp.Usage of a reply: prompt, completion and total tokens (int64).
ProviderUsages ==
    {<<Count(0, 7), Count(0, 3), Count(0, 10)>>,
     <<Count(32767, 65535), Count(0, 1), Count(32768, 0)>>,
     <<Count(65536, 5), Count(32768, 0), Count(98304, 5)>>}

ProviderReplies ==
    {TransportFailure, NoChoices}
    \cup {[Reply(<<Choice("text", <<>>, "stop")>>) EXCEPT !.usage = u] :
            u \in ProviderUsages}
    \cup {Reply(<<Choice(c, calls, f)>>) :
            c \in {"", "text"},
            calls \in SeqsUpTo(ProviderToolCalls, MaxToolCalls),
            f \in {"stop", "length", "tool_calls", "content_filter", "function_call"}}

InitAdapter ==
    /\ http = [r \in Reqs |-> NoRequest]
    /\ coord = [r \in Reqs |-> NoRun]
    /\ coll = [r \in Reqs |-> NoRun]
    /\ delegations = [r \in Reqs |-> <<>>]
    /\ invoked = {}
    /\ replies = 0
    /\ sessions = [a \in Agents |-> {}]
    /\ conns = [s \in Servers |-> NoConn]
    /\ env = GoodEnv /\ world = GoodWorld
    /\ proc = Serving(GoodEnv) /\ ready = NoReady
    /\ provided \in ProviderReplies
    /\ yielded = <<>>
    /\ script = NoScript

\* The caller ranges over GenerateContent's iterator to its end.
Generate ==
    /\ yielded = <<>>
    /\ yielded' = GenerateContent(provided)
    /\ UNCHANGED <<svars, mvars, provided, script>>

SpecAdapter == InitAdapter /\ [][Generate]_vars


----------------------------------------------------------------------------
(* Properties                                                              *)

Last(q) == q[Len(q)]
Terminal == {"Completed", "Failed"}
DelegationNames == {"collect_wc_data", "collect_mc_data"}
OwnServer(agent) == IF agent = "wc_collector" THEN "wc_server" ELSE "mc_server"
AdapterErrors ==
    {"OpenAI API error", "no choices in response", "failed to convert response"}
\* The function responses of the turn the Run is in, or has just closed.
TurnResults(run) ==
    IF run.pc = "model" /\ run.transcript # <<>> THEN Last(run.transcript).results
    ELSE run.results

\* The delegation that returns in this step, when one does.
Returns(r) == Len(delegations'[r]) = Len(delegations[r]) + 1
Returned(r) == Last(delegations'[r])

\* C2: a collector Run starts only MCP tools of its own server, never a
\* delegation tool, so a collector Run has no Run nested in it and the
\* only nesting is coordinator -> collector.
C2_CollectorsUseOwnServer ==
    /\ \A i \in invoked :
         /\ i.agent \in Collectors => i.kind = "mcp" /\ i.target = OwnServer(i.agent)
         /\ i.kind = "function" => i.agent = "coordinator"
    /\ \A r \in Reqs :
         /\ coll[r].pc # "delegating"
         /\ coll[r].status = "running" =>
               /\ coll[r].agent \in Collectors
               /\ coord[r].agent = "coordinator" /\ coord[r].pc = "delegating"

C2_Witness ==
    /\ [agent |-> "mc_collector", tool |-> "list", kind |-> "mcp",
        target |-> "mc_server"] \in invoked
    /\ \E r \in Reqs : coll[r].agent = "mc_collector" /\ coll[r].pc = "tool"

\* C3: while a delegation call is open its collector Run is running; the
\* call returns only with that Run ended, and what it returns (the text of
\* a completed Run, the error of a failed one) is the function response
\* recorded for the call in the coordinator's turn.
C3_DelegationReturnsResult ==
    [][\A r \in Reqs :
         /\ coord'[r].pc = "delegating" => coll'[r].status = "running"
         /\ Len(delegations'[r]) # Len(delegations[r]) =>
              /\ Returns(r)
              /\ coord[r].pc = "delegating" /\ coll[r].status = "running"
              /\ Returned(r).tool = Head(coord[r].pending).name
              /\ Returned(r).run.status \in Terminal
              /\ Returned(r).run.status = "Completed" =>
                    /\ Returned(r).returned.err = <<>>
                    /\ Returned(r).returned.result = Returned(r).run.result
              /\ Returned(r).run.status = "Failed" =>
                    /\ Returned(r).returned.err # <<>>
                    /\ Returned(r).returned.result = <<>>
              /\ TurnResults(coord'[r]) # <<>>
              /\ Last(TurnResults(coord'[r])) =
                    [name |-> Returned(r).tool,
                     ok |-> Returned(r).returned.err = <<>>,
                     payload |-> IF Returned(r).returned.err = <<>>
                                 THEN Returned(r).returned.result
                                 ELSE Returned(r).returned.err]]_vars

C3_Witness ==
    \E r \in Reqs :
        /\ Len(delegations[r]) = 1
        /\ delegations[r][1].run.status = "Completed"
        /\ coord[r].pc = "model"
        /\ Last(coord[r].transcript).results =
              <<[name |-> delegations[r][1].tool, ok |-> TRUE, payload |-> <<"data">>]>>

\* Whether QueryHandler is to run the coordinator for a request.
Valid(method, body) ==
    method = "POST" /\ DecodeBody(body).ok /\ DecodeBody(body).query # ""

\* C4: a request starts one coordinator Run when it is a POST whose body
\* decodes to a non-empty query, and none when it is answered 405 or 400;
\* never more than one, whatever the other requests do.
C4_OneRunPerRequest ==
    \A r \in Reqs :
        /\ http[r].runs <= 1
        /\ (coord[r].status # "none") <=> (http[r].runs = 1)
        /\ http[r].pc \in {"new", "reading"} => http[r].runs = 0 /\ http[r].code = 0
        /\ http[r].pc \in {"running", "done"} =>
              /\ http[r].runs = IF Valid(http[r].method, http[r].input) THEN 1 ELSE 0
              /\ http[r].method # "POST" => http[r].code = 405
              /\ (http[r].method = "POST" /\ ~Valid(http[r].method, http[r].input))
                    => http[r].code = 400
              /\ http[r].code \in {400, 405} => http[r].pc = "done" /\ http[r].runs = 0

C4_Witness ==
    /\ \A r \in Reqs : http[r].pc = "running" /\ http[r].runs = 1
    /\ \A r \in Reqs : coord[r].status = "running"

\* C5: once a request's context is done, the coordinator Run and every
\* collector Run that is in flight or starts afterwards end Failed with
\* the context's error as the cause, the response is a 500 carrying it,
\* and until then the request is always in a call that takes its context.
C5_CancellationPropagates ==
    \A r \in Reqs :
        /\ (http[r].cancel # "" /\ http[r].pc = "done") =>
              /\ http[r].code = 500
              /\ coord[r].status = "Failed"
              /\ Last(coord[r].err) = http[r].cancel
              /\ http[r].body = coord[r].err
        /\ \A k \in 1..Len(delegations[r]) :
              delegations[r][k].cancel # "" =>
                 /\ delegations[r][k].run.status = "Failed"
                 /\ Last(delegations[r][k].run.err) = delegations[r][k].cancel
        /\ (http[r].cancel # "" /\ http[r].pc = "running") =>
              \/ InCoordinatorModelCall(r) \/ InCollectorModelCall(r)
              \/ InListTools(r) \/ InToolCall(r)

C5_Witness ==
    \E r \in Reqs :
        /\ http[r].pc = "done" /\ http[r].cancel # "" /\ http[r].code = 500
        /\ Len(delegations[r]) = 1
        /\ delegations[r][1].cancel # ""
        /\ delegations[r][1].run.calls = 2

\* C6: a Run never makes more model calls than its turn budget without
\* ending as TurnLimitExceeded.
C6_TurnBudgetEnforced ==
    \A r \in Reqs :
        \A run \in {coord[r], coll[r]} :
            run.calls > TurnBudget => run.status = "TurnLimitExceeded"

\* C7: when a model call fails with an adapter error the Run makes at most
\* one more call for that turn, its transcript is what it was before the
\* call, the Run is Failed, and a coordinator's failure is the 500 response.
C7_AdapterErrorFailsRun ==
    [][\A r \in Reqs :
         /\ (coord[r].status = "running" /\ coord'[r].status = "Failed"
             /\ coord'[r].err[2] \in AdapterErrors) =>
               /\ coord'[r].calls \in {coord[r].calls + 1, coord[r].calls + 2}
               /\ coord'[r].transcript = coord[r].transcript
               /\ http'[r].pc = "done" /\ http'[r].code = 500
               /\ http'[r].body = coord'[r].err
         /\ (Returns(r) /\ Returned(r).run.status = "Failed"
             /\ Returned(r).run.err[2] \in AdapterErrors) =>
               /\ Returned(r).run.calls \in {coll[r].calls + 1, coll[r].calls + 2}
               /\ Returned(r).run.transcript = coll[r].transcript]_vars

C7_Witness ==
    \E r \in Reqs :
        /\ coord[r].status = "Failed"
        /\ coord[r].err = <<"coordinator execution failed", "OpenAI API error", "transport">>
        /\ Len(coord[r].transcript) = 3
        /\ http[r].code = 500

\* Whether the reply is one the adapter cannot convert.
Unusable(reply) ==
    \/ reply.err # ""
    \/ reply.choices = <<>>
    \/ \E k \in 1..Len(reply.choices[1].toolCalls) :
          ~JsonUnmarshalMap(reply.choices[1].toolCalls[k].arguments).ok

\* C8: for every provider reply the adapter yields exactly once, either a
\* response and no error or an error and no response; for a transport
\* failure, a reply without choices or a tool call whose arguments do not
\* decode it is the error, and otherwise the response has every part.
C8_OneOutcome ==
    yielded # <<>> =>
        /\ Len(yielded) = 1
        /\ (yielded[1].err = <<>>) <=> ~yielded[1].resp.nil
        /\ Unusable(provided) =>
              /\ yielded[1].err # <<>>
              /\ yielded[1].resp = NilResponse
        /\ ~Unusable(provided) =>
              /\ yielded[1].err = <<>>
              /\ Len(yielded[1].resp.parts) =
                    Len(provided.choices[1].toolCalls)
                    + (IF provided.choices[1].content # "" THEN 1 ELSE 0)

C8_Witness ==
    /\ yielded # <<>>
    /\ provided.err = ""
    /\ provided.choices # <<>>
    /\ provided.choices[1].content = "text"
    /\ Len(provided.choices[1].toolCalls) = 2
    /\ JsonUnmarshalMap(provided.choices[1].toolCalls[1].arguments).ok
    /\ ~JsonUnmarshalMap(provided.choices[1].toolCalls[2].arguments).ok
    /\ yielded[1].resp = NilResponse

\* C9: tool-call arguments that do not decode never end a Run.
C9_MalformedArgumentsContained ==
    \A r \in Reqs :
        \A run \in {coord[r], coll[r]} :
            ~(/\ run.status = "Failed"
              /\ Last(run.err) = "failed to parse tool arguments")

\* The tool calls of a reply whose arguments decode, in the order received.
RECURSIVE Decodable(_)
Decodable(calls) ==
    IF calls = <<>> THEN <<>>
    ELSE (IF JsonUnmarshalMap(Head(calls).arguments).ok THEN <<Head(calls).name>> ELSE <<>>)
         \o Decodable(Tail(calls))

\* C11: of the tool calls of one reply, every call that can be dispatched
\* is handed to the runtime, in the order received, whether or not another
\* call of the same reply fails.
C11_EachCallHandedOver ==
    (yielded # <<>> /\ provided.err = "" /\ provided.choices # <<>>) =>
        Names(FunctionCalls(yielded[1].resp.parts))
            = Decodable(provided.choices[1].toolCalls)

\* C12: a reply the provider finished for tool calls is reported with a
\* finish reason of its own, not with the one of a reply that stopped.
C12_ToolCallsFinishReason ==
    (yielded # <<>> /\ ~yielded[1].resp.nil
     /\ provided.choices[1].finish = "tool_calls") =>
        /\ yielded[1].resp.finishReason # ConvertFinishReason("stop")
        /\ yielded[1].resp.finishReason = "TOOL_CALLS"


\* C13: a request whose Run completed on a reply cut at the output-token
\* limit gets a response the caller can tell from the response to a Run
\* that completed with the same text on a reply that stopped.
C13_TruncationVisible ==
    \A r1, r2 \in Reqs :
        (/\ http[r1].pc = "done" /\ coord[r1].status = "Completed"
         /\ http[r2].pc = "done" /\ coord[r2].status = "Completed"
         /\ Last(coord[r1].transcript).finish = "MAX_TOKENS"
         /\ Last(coord[r2].transcript).finish = "STOP"
         /\ Last(coord[r1].transcript).text = Last(coord[r2].transcript).text)
        => <<http[r1].code, http[r1].body>> # <<http[r2].code, http[r2].body>>


\* C14: a connection to a tool server is open only while the one Run that
\* opened it is running, and has no other user.
C14_ConnectionOwnedByOneRun ==
    \A x \in Servers :
        conns[x].state = "open" =>
            /\ Cardinality(conns[x].users) <= 1
            /\ \E r \in Reqs :
                  coll[r].status = "running" /\ coll[r].session \in conns[x].users

\* The Runs started so far: the coordinator Run of a request, and the
\* collector Runs of its delegations, returned or in flight.
RunKeys ==
    {<<r, 0>> : r \in {r \in Reqs : coord[r].status # "none"}}
    \cup {key \in Reqs \X (1..(2 * MaxReplies + 1)) :
              \/ key[2] <= Len(delegations[key[1]])
              \/ /\ key[2] = Len(delegations[key[1]]) + 1
                 /\ coll[key[1]].status = "running"}
RunAt(key) ==
    IF key[2] = 0 THEN coord[key[1]]
    ELSE IF key[2] <= Len(delegations[key[1]]) THEN delegations[key[1]][key[2]].run
    ELSE coll[key[1]]

\* C15: every Run has a session of its own in the session service of its
\* agent, which holds one session per Run, and the session's events are
\* the Run's alone: they start with the Run's user message and have no
\* other user message.
C15_SessionPerRun ==
    LET keys == RunKeys IN
    /\ Cardinality({RunAt(k).session : k \in keys}) = Cardinality(keys)
    /\ \A k \in keys :
          LET run == RunAt(k) IN
          /\ \E x \in sessions[run.agent] : x.id = run.session
          /\ run.transcript[1] = UserTurn("q")
          /\ \A i \in 2..Len(run.transcript) :
                run.transcript[i].role = "user" => run.transcript[i].text = <<>>
    /\ \A a \in Agents :
          Cardinality(sessions[a]) = Cardinality({k \in keys : RunAt(k).agent = a})

C15_Witness ==
    /\ \A r \in Reqs : coll[r].agent = "wc_collector" /\ coll[r].status = "running"
    /\ Cardinality(sessions["wc_collector"]) = 2
    /\ Cardinality(sessions["coordinator"]) = 2
    /\ \E r \in Reqs : Len(delegations[r]) = 1

\* C16: once the response of a request is written, no session service
\* holds a session of one of its Runs.
C16_SessionsDestroyed ==
    \A r \in Reqs :
        http[r].pc = "done" =>
            /\ coord[r].session \notin {x.id : x \in sessions["coordinator"]}
            /\ \A k \in 1..Len(delegations[r]) :
                  delegations[r][k].run.session
                     \notin {x.id : x \in sessions[delegations[r][k].run.agent]}


\* Whether a request or a readiness probe was answered.
Served == ready # NoReady \/ \E r \in Reqs : http[r].pc # "new"

\* C17: the process serves only with the configuration loaded without
\* error and the three agents constructed; a failure of one of these
\* steps ends the process, which then has answered nothing.
C17_ServesOnlyAfterStartup ==
    /\ (proc.pc \in {"serve", "listening"} \/ Served) =>
          /\ LoadConfig(env).err = <<>>
          /\ proc.cfg = LoadConfig(env).cfg /\ ~proc.cfg.nil
          /\ world.files = Agents /\ proc.built = Agents
          /\ world.servers = Servers /\ world.adk = "none"
    /\ Served => proc.pc = "listening"
    /\ proc.pc = "exited" => proc.fatal # <<>> /\ ~Served
    /\ (LoadConfig(env).err # <<>> /\ proc.pc # "load") =>
          /\ proc.pc = "exited"
          /\ proc.fatal = <<"Failed to load configuration">> \o LoadConfig(env).err
    /\ \A a \in Agents \ world.files :
          proc.pc \notin {"load", "otel", "wc_collector", "mc_collector", "coordinator"}
             => proc.pc = "exited"

C17_Witness ==
    /\ proc.pc = "exited"
    /\ proc.fatal = <<"Failed to load configuration",
                      "OPENAI_COORDINATOR_MODEL environment variable is required">>
    /\ world.files = Agents /\ world.port

\* C18: a tool server that cannot be started is not fatal to the process:
\* the process does not end on the failure to set up its connection.
C18_ConnectFailureNonFatal ==
    proc.pc = "exited" => Last(proc.fatal) # "failed to create MCP toolset"

\* The readiness check that stands for a tool server.
CheckOf(server) == IF server = "wc_server" THEN "kubernetes_wc" ELSE "kubernetes_mc"

\* C19: a readiness probe answered while a tool server has failed to start
\* reports not_ready and marks the check of that server as failed.
C19_ReadinessNamesFailedServer ==
    [][\A x \in Servers :
         (conns[x].state = "failed" /\ ready' # ready) =>
            /\ ready'.code = 503
            /\ ready'.status = "not_ready"
            /\ <<CheckOf(x), FALSE>> \in ready'.checks]_vars

\* C20: when both required settings are missing, the error the process
\* ends with names both of them.
C20_AllProblemsReported ==
    (/\ proc.pc = "exited"
     /\ env.OPENAI_API_KEY = "" /\ env.OPENAI_COORDINATOR_MODEL = "") =>
        /\ \E i \in 1..Len(proc.fatal) :
              proc.fatal[i] = "OPENAI_API_KEY environment variable is required"
        /\ \E i \in 1..Len(proc.fatal) :
              proc.fatal[i] = "OPENAI_COORDINATOR_MODEL environment variable is required"



----------------------------------------------------------------------------
(* LoadConfig alone, over every combination of set and unset variables     *)

ConfigEnvs ==
    {[OPENAI_API_KEY |-> k, OPENAI_COORDINATOR_MODEL |-> m,
      OPENAI_COLLECTOR_MODEL |-> c, WC_CLUSTER |-> w, ORG_NS |-> o, DEBUG |-> d,
      OTEL_EXPORTER_OTLP_ENDPOINT |-> e, OTEL_EXPORTER_OTLP_INSECURE |-> i,
      SERVER_PORT |-> p] :
        k \in {"", "sk"}, m \in {"", "gpt-4o"}, c \in {"", "gpt-4"},
        w \in {"", "wc1"}, o \in {"", "org1"},
        d \in {"", "true", "TRUE", "tRuE", "1", "yes", "Yes", "no", "ON", "0"},
        e \in {"", "otel:4318"}, i \in {"", "true", "false", "TRUE"},
        p \in {"", "9000"}}

InitConfig ==
    /\ http = [r \in Reqs |-> NoRequest]
    /\ coord = [r \in Reqs |-> NoRun]
    /\ coll = [r \in Reqs |-> NoRun]
    /\ delegations = [r \in Reqs |-> <<>>]
    /\ invoked = {}
    /\ replies = 0
    /\ sessions = [a \in Agents |-> {}]
    /\ conns = [s \in Servers |-> NoConn]
    /\ env \in ConfigEnvs /\ world = GoodWorld
    /\ proc = NoProcess /\ ready = NoReady
    /\ provided = NoChoices
    /\ yielded = <<>>
    /\ script = NoScript

NextConfig == MainLoadConfig

SpecConfig == InitConfig /\ [][NextConfig]_vars

\* The value a variable is documented to give: its own when set, else the default.
Documented(value, default) == IF value = "" THEN default ELSE value

DebugOn == {"true", "TRUE", "tRuE", "1", "yes", "Yes"}

\* C21: LoadConfig fails exactly when OPENAI_API_KEY or OPENAI_COORDINATOR_MODEL
\* is unset; otherwise every optional setting has the value of its variable
\* when set and the documented default when unset, and debug is on exactly for
\* true, 1 and yes in any letter case.
C21_LoadConfigDefaults ==
    proc.pc # "load" =>
        /\ (proc.pc = "exited") <=>
               (env.OPENAI_API_KEY = "" \/ env.OPENAI_COORDINATOR_MODEL = "")
        /\ (proc.pc = "exited") => proc.cfg.nil
        /\ (proc.pc # "exited") =>
            /\ ~proc.cfg.nil
            /\ proc.cfg.OpenAIAPIKey = env.OPENAI_API_KEY
            /\ proc.cfg.OpenAICoordinatorModel = env.OPENAI_COORDINATOR_MODEL
            /\ proc.cfg.OpenAICollectorModel =
                   Documented(env.OPENAI_COLLECTOR_MODEL, "gpt-4o-mini")
            /\ proc.cfg.WCCluster = Documented(env.WC_CLUSTER, "workload cluster")
            /\ proc.cfg.OrgNS = Documented(env.ORG_NS, "organization namespace")
            /\ proc.cfg.ServerPort = Documented(env.SERVER_PORT, "8000")
            /\ proc.cfg.OTELEndpoint = env.OTEL_EXPORTER_OTLP_ENDPOINT
            /\ proc.cfg.OTELInsecure = (env.OTEL_EXPORTER_OTLP_INSECURE = "true")
            /\ proc.cfg.Debug = (env.DEBUG \in DebugOn)

C21_Witness ==
    /\ proc.pc = "otel"
    /\ env.ORG_NS = "" /\ proc.cfg.OrgNS = "organization namespace"
    /\ env.SERVER_PORT = "9000" /\ proc.cfg.ServerPort = "9000"
    /\ env.OTEL_EXPORTER_OTLP_INSECURE = "" /\ ~proc.cfg.OTELInsecure
    /\ env.DEBUG = "Yes" /\ proc.cfg.Debug


\* The Runs that have returned.
ReturnedKeys == {k \in RunKeys : RunAt(k).status \in Terminal}
ReturnedRuns == {RunAt(key) : key \in ReturnedKeys}

\* C23: the payload a delegation returns for a completed collector Run is the
\* text of the Run's final turn, without the text of its earlier turns.
C23_PayloadIsTerminalText ==
    \A r \in Reqs : \A i \in 1..Len(delegations[r]) :
        delegations[r][i].run.status = "Completed" =>
            delegations[r][i].returned.result =
                Last(delegations[r][i].run.transcript).text


----------------------------------------------------------------------------
(* substituteTemplate alone, over templates of up to MaxPieces pieces      *)

Pieces ==
    {<<"text">>, Placeholder("WC_CLUSTER"), Placeholder("ORG_NS"), Placeholder("OTHER")}

RECURSIVE Concats(_)
Concats(n) ==
    IF n = 0 THEN {<<>>}
    ELSE Concats(n - 1) \cup {t \o piece : t \in Concats(n - 1), piece \in Pieces}

Templates == Concats(MaxPieces)

Values ==
    {<<>>, <<"wc1">>, <<"$", "{">>, Placeholder("WC_CLUSTER"), Placeholder("ORG_NS")}

\* The maps NewWCCollector, and NewMCCollector and NewCoordinator, pass.
Bindings == [{"WC_CLUSTER"} -> Values] \cup [{"WC_CLUSTER", "ORG_NS"} -> Values]

InitTemplate ==
    /\ http = [r \in Reqs |-> NoRequest]
    /\ coord = [r \in Reqs |-> NoRun]
    /\ coll = [r \in Reqs |-> NoRun]
    /\ delegations = [r \in Reqs |-> <<>>]
    /\ invoked = {}
    /\ replies = 0
    /\ sessions = [a \in Agents |-> {}]
    /\ conns = [s \in Servers |-> NoConn]
    /\ env = GoodEnv /\ world = GoodWorld
    /\ proc = Serving(GoodEnv) /\ ready = NoReady
    /\ provided \in [template : Templates, bound : Bindings]
    /\ yielded = <<>>
    /\ script = NoScript

Substitute ==
    /\ yielded = <<>>
    /\ \E order \in Orders(DOMAIN provided.bound) :
         yielded' = <<substituteTemplate(provided.template, provided.bound, order)>>
    /\ UNCHANGED <<svars, mvars, provided, script>>

SpecTemplate == InitTemplate /\ [][Substitute]_vars

\* Every placeholder of the template replaced at once by the key's value,
\* placeholders of other keys left as they are.
RECURSIVE Simultaneous(_, _)
Simultaneous(template, bound) ==
    IF template = <<>> THEN <<>>
    ELSE IF \E k \in DOMAIN bound :
               /\ Len(template) >= 4
               /\ SubSeq(template, 1, 4) = Placeholder(k)
    THEN bound[template[3]] \o Simultaneous(SubSeq(template, 5, Len(template)), bound)
    ELSE <<Head(template)>> \o Simultaneous(Tail(template), bound)

\* C28: substituteTemplate replaces every ${KEY} of a bound key by its value
\* and leaves the placeholders of unbound keys as they are, and its result
\* is the same in whichever order the bindings are applied, also when a
\* bound value contains the placeholder of another bound key.
C28_SubstitutionOrderIndependent ==
    yielded # <<>> =>
        /\ \A order \in Orders(DOMAIN provided.bound) :
              yielded[1] =
                  substituteTemplate(provided.template, provided.bound, order)
        /\ (\A k \in DOMAIN provided.bound : provided.bound[k] \in {<<>>, <<"wc1">>})
              => yielded[1] = Simultaneous(provided.template, provided.bound)

\* The part of C28 that holds: with values that hold no placeholder text.
C28_PlainValues ==
    (yielded # <<>>
       /\ \A k \in DOMAIN provided.bound : provided.bound[k] \in {<<>>, <<"wc1">>})
    => /\ yielded[1] = Simultaneous(provided.template, provided.bound)
       /\ \A order \in Orders(DOMAIN provided.bound) :
             yielded[1] = substituteTemplate(provided.template, provided.bound, order)


----------------------------------------------------------------------------
(* simpleConvertToOpenAIMessages alone, over transcripts of up to          *)
(* MaxContents contents                                                    *)

\* The parts of a genai.Content.
TextOf(text) == [kind |-> "text", text |-> text, name |-> "", payload |-> ""]
CallOf(name, args) == [kind |-> "call", text |-> "", name |-> name, payload |-> args]
ResponseOf(name, response) ==
    [kind |-> "response", text |-> "", name |-> name, payload |-> response]

\* openai.UserMessage, AssistantMessage, SystemMessage: a role and a text;
\* the adapter sets no tool calls and no tool-call id on a message.
Message(role, content) == [role |-> role, content |-> content, toolCalls |-> <<>>]

\* fmt.Sprintf("Function %s returned: %s", name, resultJSON)
FunctionReturned(name, resultJSON) == <<"Function ", name, " returned: ", resultJSON>>

\* The loop over content.Parts: the text gathered, and the messages
\* appended for the function responses met on the way.
RECURSIVE OverParts(_)
OverParts(parts) ==
    IF parts = <<>> THEN [text |-> <<>>, messages |-> <<>>]
    ELSE LET rest == OverParts(Tail(parts))
             part == Head(parts) IN
         [text |-> (IF part.text # "" THEN <<part.text>> ELSE <<>>) \o rest.text,
          messages |->
              (IF part.kind = "response"
               THEN <<Message("user", FunctionReturned(part.name, part.payload))>>
               ELSE <<>>) \o rest.messages]

\* The switch on content.Role.
ByRole(role, text) ==
    CASE role = "user" -> <<Message("user", text)>>
      [] role = "model" -> <<Message("assistant", text)>>
      [] role = "system" -> <<Message("system", text)>>
      [] OTHER -> IF text # <<>> THEN <<Message("user", text)>> ELSE <<>>

RECURSIVE simpleConvertToOpenAIMessages(_)
simpleConvertToOpenAIMessages(contents) ==
    IF contents = <<>> THEN <<>>
    ELSE LET content == Head(contents)
             over == OverParts(content.parts) IN
         over.messages \o ByRole(content.role, over.text)
           \o simpleConvertToOpenAIMessages(Tail(contents))

\* The contents a Run's request can hold.
Contents ==
    {[role |-> "user", parts |-> <<TextOf("q")>>],
     [role |-> "model", parts |-> <<TextOf("answer")>>],
     [role |-> "model", parts |-> <<TextOf("plan"), TextOf("more")>>],
     [role |-> "model", parts |-> <<CallOf("list", GoodArgs)>>],
     [role |-> "model", parts |-> <<TextOf("note"), CallOf("list", GoodArgs)>>],
     [role |-> "user", parts |-> <<ResponseOf("list", "{\"result\":\"items\"}")>>],
     [role |-> "tool", parts |-> <<TextOf("aside")>>]}

InitMessages ==
    /\ http = [r \in Reqs |-> NoRequest]
    /\ coord = [r \in Reqs |-> NoRun]
    /\ coll = [r \in Reqs |-> NoRun]
    /\ delegations = [r \in Reqs |-> <<>>]
    /\ invoked = {}
    /\ replies = 0
    /\ sessions = [a \in Agents |-> {}]
    /\ conns = [s \in Servers |-> NoConn]
    /\ env = GoodEnv /\ world = GoodWorld
    /\ proc = Serving(GoodEnv) /\ ready = NoReady
    /\ provided \in SeqsUpTo(Contents, MaxContents)
    /\ yielded = <<>>
    /\ script = NoScript

ConvertMessages ==
    /\ yielded = <<>>
    /\ yielded' = <<simpleConvertToOpenAIMessages(provided)>>
    /\ UNCHANGED <<svars, mvars, provided, script>>

SpecMessages == InitMessages /\ [][ConvertMessages]_vars

\* What a transcript holds, part by part: who said it and what it is.
RECURSIVE PartsOf(_)
PartsOf(contents) ==
    IF contents = <<>> THEN <<>>
    ELSE [i \in 1..Len(Head(contents).parts) |->
            LET part == Head(contents).parts[i] IN
            [kind |-> part.kind,
             value |-> IF part.kind = "text" THEN <<part.text>>
                       ELSE <<part.name, part.payload>>]]
         \o PartsOf(Tail(contents))

\* What a list of messages holds: per message its text, as a function
\* result when it reports one, and then its tool calls.
RECURSIVE CallItems(_)
CallItems(calls) ==
    IF calls = <<>> THEN <<>>
    ELSE <<[kind |-> "call", value |-> <<Head(calls).name, Head(calls).payload>>]>>
         \o CallItems(Tail(calls))

RECURSIVE TextItems(_)
TextItems(text) ==
    IF text = <<>> THEN <<>>
    ELSE <<[kind |-> "text", value |-> <<Head(text)>>]>> \o TextItems(Tail(text))

RECURSIVE ItemsOf(_)
ItemsOf(messages) ==
    IF messages = <<>> THEN <<>>
    ELSE LET m == Head(messages) IN
         (IF Len(m.content) = 4 /\ m.content[1] = "Function "
          THEN <<[kind |-> "response", value |-> <<m.content[2], m.content[4]>>]>>
          ELSE TextItems(m.content))
         \o CallItems(m.toolCalls) \o ItemsOf(Tail(messages))

\* C25: the messages sent to the provider hold every text part, every
\* tool-call part and every tool-result part of the transcript, in the
\* transcript's order, and no message is empty.
C25_EveryPartConverted ==
    yielded # <<>> =>
        /\ ItemsOf(yielded[1]) = PartsOf(provided)
        /\ \A i \in 1..Len(yielded[1]) :
              yielded[1][i].content # <<>> \/ yielded[1][i].toolCalls # <<>>

\* The part of C25 that holds: a transcript of text parts only.
C25_TextOnly ==
    (yielded # <<>>
       /\ \A i \in 1..Len(provided) : \A j \in 1..Len(provided[i].parts) :
             provided[i].parts[j].kind = "text")
    => /\ ItemsOf(yielded[1]) = PartsOf(provided)
       /\ \A i \in 1..Len(yielded[1]) : yielded[1][i].content # <<>>


\* C26: the token counts reported with a reply are the provider's counts,
\* also for counts that do not fit 32 bits.
C26_UsageCountsKept ==
    (yielded # <<>> /\ provided.err = "" /\ yielded[1].err = <<>>) =>
        yielded[1].resp.usage = provided.usage


\* The text the provider sent to a Run, reply by reply.
RECURSIVE ProvidedText(_)
ProvidedText(inputs) ==
    IF inputs = <<>> THEN <<>>
    ELSE (IF /\ Head(inputs).kind = "model"
             /\ Head(inputs).reply.choices # <<>>
             /\ Head(inputs).reply.choices[1].content # ""
          THEN <<Head(inputs).reply.choices[1].content>> ELSE <<>>)
         \o ProvidedText(Tail(inputs))

\* C27: a Run returns either its text with no error, the text being every
\* non-empty text part of its events in order, or an error with the empty
\* text: the text gathered before the error is not returned.
C27_TextOrError ==
    \A k \in ReturnedKeys :
        LET x == RunAt(k) IN
        /\ x.status = "Completed" =>
              x.err = <<>> /\ x.result = ProvidedText(x.inputs)
        /\ x.status = "Failed" =>
              /\ x.err # <<>> /\ x.result = <<>>
              /\ x.err[1] = ErrorPrefix(x.agent)

C27_Witness ==
    /\ \E x \in ReturnedRuns :
          x.status = "Failed" /\ ProvidedText(x.inputs) # <<>> /\ x.result = <<>>
    /\ \E x \in ReturnedRuns :
          x.status = "Completed" /\ Len(x.result) = 2


----------------------------------------------------------------------------
(* main.go : the serving process and its shutdown goroutine                *)

\* The process runs: main has not returned.
Alive == proc.pc # "stopped"

\* SIGINT or SIGTERM arrives: the goroutine leaves <-sigChan and calls
\* httpServer.Shutdown under a context with a 10 s timeout.  Shutdown
\* closes the listeners, so no connection is accepted any more, and
\* ListenAndServe returns http.ErrServerClosed to main at once.  The
\* connections accepted before, whose request has not been read yet, are
\* still served.
Signal ==
    /\ proc.pc = "listening" /\ proc.shutdown = "waiting"
    /\ \E acc \in SUBSET {r \in Reqs : http[r].pc = "new"} :
          proc' = [proc EXCEPT !.pc = "closing", !.shutdown = "draining",
                               !.accepted = acc]
    /\ UNCHANGED <<svars, avars, env, world, ready>>

\* A request is in flight from the entry of its handler to its response.
InFlight(r) == http[r].pc \in {"reading", "running"}

\* Shutdown returns nil once it finds no request in flight, closing the
\* connections that sent nothing, or the context's error once the timeout
\* has passed, whether or not a request is still in flight.
ShutdownReturns(timeout) ==
    /\ Alive /\ proc.shutdown = "draining"
    /\ timeout \/ \A r \in Reqs : ~InFlight(r)
    /\ proc' = [proc EXCEPT !.shutdown = IF timeout THEN "timed out" ELSE "drained",
                            !.accepted = IF timeout THEN @ ELSE {}]
    /\ UNCHANGED <<svars, avars, env, world, ready>>

\* main after ListenAndServe returned http.ErrServerClosed: it logs
\* "Server stopped" and returns, which ends the process and with it
\* every goroutine, the handlers of requests in flight included.
MainReturns ==
    /\ proc.pc = "closing"
    /\ proc' = [proc EXCEPT !.pc = "stopped"]
    /\ UNCHANGED <<svars, avars, env, world, ready>>

NextShutdown ==
    \/ Alive /\ Next
    \/ Signal
    \/ \E timeout \in BOOLEAN : ShutdownReturns(timeout)
    \/ MainReturns

SpecShutdown == Init /\ [][NextShutdown]_vars

\* C29: after SIGINT or SIGTERM no request is accepted any more, and the
\* process does not end while Shutdown is still waiting for the requests
\* in flight: main returns only after Shutdown has returned.
C29_MainWaitsForShutdown ==
    /\ proc.pc = "stopped" => proc.shutdown \in {"drained", "timed out"}
    /\ proc.pc = "stopped" /\ proc.shutdown # "timed out" =>
          \A r \in Reqs : ~InFlight(r)



----------------------------------------------------------------------------
(* run-shoot-job.sh : the wait loop for the Job                            *)

Deadline == 1200
Sleep == 3

\* The status of a condition as kubectl prints it, or "" when the lookup
\* fails (2>/dev/null || true) or the Job has no such condition.
Observed(job, type, lookupFails) ==
    IF lookupFails THEN ""
    ELSE IF type = "Complete" /\ job \in {"complete", "both"} THEN "True"
    ELSE IF type = "Failed" /\ job \in {"failed", "both"} THEN "True"
    ELSE ""

\* The clock after d more seconds; past the deadline its value is not read.
Later(now, d) == IF now + d > Deadline THEN Deadline ELSE now + d

\* Faulty variant: Complete is looked at before Failed.
DecideCompleteFirst(s) ==
    IF s.complete = "True" THEN [s EXCEPT !.pc = "exit", !.code = 0]
    ELSE IF s.failed = "True" THEN [s EXCEPT !.pc = "exit", !.code = 1]
    ELSE IF s.now >= Deadline THEN [s EXCEPT !.pc = "exit", !.code = 1]
    ELSE [s EXCEPT !.pc = "poll", !.now = Later(s.now, Sleep)]

\* The three tests of one iteration, and sleep 3 when none of them exits.
Decide(s) ==
    IF s.failed = "True" THEN [s EXCEPT !.pc = "exit", !.code = 1]
    ELSE IF s.complete = "True" THEN [s EXCEPT !.pc = "exit", !.code = 0]
    ELSE IF s.now >= Deadline THEN [s EXCEPT !.pc = "exit", !.code = 1]
    ELSE [s EXCEPT !.pc = "poll", !.now = Later(s.now, Sleep)]

InitWait ==
    /\ http = [r \in Reqs |-> NoRequest]
    /\ coord = [r \in Reqs |-> NoRun]
    /\ coll = [r \in Reqs |-> NoRun]
    /\ delegations = [r \in Reqs |-> <<>>]
    /\ invoked = {}
    /\ replies = 0
    /\ sessions = [a \in Agents |-> {}]
    /\ conns = [s \in Servers |-> NoConn]
    /\ env = GoodEnv /\ world = GoodWorld
    /\ proc = Serving(GoodEnv) /\ ready = NoReady
    /\ provided = NoChoices
    /\ yielded = <<>>
    /\ script = [NoScript EXCEPT !.pc = "poll", !.job = "active"]

\* The Job gets a Complete or a Failed condition.
JobEnds(outcome) ==
    /\ script.pc # "exit"
    /\ \/ script.job = "active"
       \/ script.job # "both" /\ outcome = "both"
    /\ script' = [script EXCEPT !.job = outcome]
    /\ UNCHANGED <<svars, mvars, provided, yielded>>

\* complete=$(kubectl get job ...): the first lookup of an iteration,
\* which takes d seconds.
PollComplete(lookupFails, d) ==
    /\ script.pc = "poll"
    /\ script' = [script EXCEPT
                    !.pc = "poll failed",
                    !.complete = Observed(script.job, "Complete", lookupFails),
                    !.erred = @ \/ lookupFails,
                    !.now = Later(@, d)]
    /\ UNCHANGED <<svars, mvars, provided, yielded>>

\* failed=$(kubectl get job ...): the second lookup, of the Job as it is then.
PollFailed(lookupFails, d) ==
    /\ script.pc = "poll failed"
    /\ script' = [script EXCEPT
                    !.pc = "decide",
                    !.failed = Observed(script.job, "Failed", lookupFails),
                    !.erred = @ \/ lookupFails,
                    !.now = Later(@, d)]
    /\ UNCHANGED <<svars, mvars, provided, yielded>>

\* The rest of the iteration.
Iterate ==
    /\ script.pc = "decide"
    /\ script' = Decide(script)
    /\ UNCHANGED <<svars, mvars, provided, yielded>>

ScriptStep ==
    \/ \E lookupFails \in BOOLEAN : \E d \in {0, Sleep} : PollComplete(lookupFails, d)
    \/ \E lookupFails \in BOOLEAN : \E d \in {0, Sleep} : PollFailed(lookupFails, d)
    \/ Iterate

NextWait ==
    \/ \E outcome \in {"complete", "failed", "both"} : JobEnds(outcome)
    \/ ScriptStep

\* The shell runs the script's next command whenever there is one.
SpecWait == InitWait /\ [][NextWait]_vars /\ WF_vars(ScriptStep)

\* The exits of the wait loop are the three the script has.
ExitsAsObserved ==
    script.pc = "exit" =>
        \/ script.failed = "True" /\ script.code = 1
        \/ script.failed # "True" /\ script.complete = "True" /\ script.code = 0
        \/ /\ script.failed # "True" /\ script.complete # "True"
           /\ script.now >= Deadline /\ script.code = 1

\* The loop goes on only after a poll that saw neither condition before
\* the deadline.
GoesOnWhenNeither ==
    script.pc = "poll" =>
        script.failed # "True" /\ script.complete # "True" /\ script.code = 0

\* C30: the wait loop always ends: with exit code 1 in the first poll that
\* sees Failed True, with 0 in the first poll that sees Complete True and
\* not Failed True, and with 1 once the deadline of 20 minutes has passed;
\* a lookup that fails counts as neither condition.
C30_WaitLoopTerminates ==
    /\ [](ExitsAsObserved /\ GoesOnWhenNeither)
    /\ <>(script.pc = "exit")

C30_Witness ==
    /\ script.pc = "exit" /\ script.code = 0
    /\ script.erred /\ script.now > Sleep /\ script.job = "complete"

====
